---- MODULE Spec2Model ----
(***************************************************************************)
(* NoirNote: the case page (CaseClient), the active-case store             *)
(* (activeCase.client), the result ledger (caseResult.client), the user    *)
(* statistics (userStats.client) and the leaderboards                      *)
(* (leaderboard.client).                                                   *)
(*                                                                         *)
(* Time is the value of Date.now() in milliseconds, advanced in steps of   *)
(* TickMs.  A Firestore write of this client is applied to the document    *)
(* when it is issued (writes of one client are applied in issue order);    *)
(* the promise of the write settles in a later step.  A write that the     *)
(* store rejects leaves the document as it was and rejects the promise.    *)
(***************************************************************************)
EXTENDS Integers, Sequences, FiniteSets, TLC

(* ---------------- bounds of the model ---------------- *)
MaxTicks == 2
MaxGridTicks == 3
MaxSubmits == 2
MaxGrid == 1
MaxBurst == 2
MaxCalls == 3
MaxLedger == 3
MaxStatRuns == 2
MaxLbCalls == 5
MaxRaceCalls == 3
MaxRuns == 2
MaxAuthTicks == 11

(* ---------------- program constants ---------------- *)
PENALTY_MS == 5 * 60 * 1000
DEBOUNCE_MS == 1000
AUTH_TIMEOUT_MS == 5000
\* granularity of the clock: two clock steps per debounce window
TickMs == DEBOUNCE_MS \div 2

(* the case catalogue entry of case-001 (solution triple) and the ids a   *)
(* select can hold: "" is the unselected option                            *)
CaseId == "case-001"
Solution == [suspectId |-> "suspect-003", locationId |-> "location-001", weaponId |-> "weapon-001"]
SuspectIds == {"", "suspect-002", "suspect-003"}
LocationIds == {"", "location-001", "location-002"}
WeaponIds == {"", "weapon-001", "weapon-002"}

(* gridState is opaque to the page: a grid is a small number, 0 the       *)
(* all-empty grid of getInitialGridState                                   *)
getInitialGridState == 0
Grids == 0..MaxGrid

Users == {"u1", "u2"}
LedgerCases == {"case-001", "case-002"}

(* the callers of the statistics and leaderboard functions: two devices    *)
(* (or tabs) of the signed-in user                                         *)
Procs == {"d1", "d2"}

(* nullable values: <<>> is null, <<x>> is x *)
None == <<>>
Some(x) == <<x>>

VARIABLES
  now,          \* Date.now()
  stored,       \* users/{uid}/activeCase/{caseId}: None or Some(document)
  results,      \* results collection written by addDoc, in order of creation
  resultsById,  \* results collection of the variant keyed by {uid}_{caseId}
  authUser,     \* auth.currentUser of the ledger caller
  mounted,      \* the CaseClient component is mounted
  activeCase,   \* useState activeCase
  gridState,    \* useState gridState
  resultState,  \* useState resultState
  isSubmitting, \* useState isSubmitting
  isLoading,    \* useState isLoading
  timers,       \* pending setTimeout callbacks of the debounced save effect
  timeoutId,    \* the timeout created by the last run of the effect
  loadPc,       \* position of loadActiveCase
  pc,           \* position of onSubmitReport, with its closure values
  stats,        \* users/{uid}/stats/main, per uid: None or Some(document)
  globalLb,     \* leaderboard/global/entries/{uid}: None or Some(entry)
  caseLb,       \* leaderboard/{caseId}/entries/{uid}: None or Some(entry)
  runs,         \* per caller: position of its call in flight, with its closure values
  hist          \* history of the run, read by the properties only

vars == <<now, stored, results, resultsById, authUser, mounted, activeCase, gridState,
          resultState, isSubmitting, isLoading, timers, timeoutId, loadPc, pc,
          stats, globalLb, caseLb, runs, hist>>

pageVars == <<mounted, activeCase, gridState, resultState, isSubmitting, isLoading,
              timers, timeoutId, loadPc, pc>>

rankVars == <<stats, globalLb, caseLb, runs>>

(* ======================= activeCase.client ======================= *)

(* setDoc(ref, data, {merge: true}): the fields of data replace those of   *)
(* the document, the other fields of the document stay                     *)
MergeDoc(old, data) ==
  [k \in (DOMAIN old) \cup (DOMAIN data) |-> IF k \in DOMAIN data THEN data[k] ELSE old[k]]

(* the document after saveActiveCase(ac); ok = the store accepts the write *)
\* (updatedAt, a server timestamp no code of the page reads, is left out)
saveActiveCase(doc, ac, ok) ==
  IF ~ok THEN doc
  ELSE IF doc = None THEN Some(ac) ELSE Some(MergeDoc(doc[1], ac))

(* the value initializeActiveCase builds and saves *)
initializeActiveCase(caseId, initialGridState, t) ==
  [caseId |-> caseId, status |-> "playing", startedAt |-> t, attempts |-> 0,
   penaltyMs |-> 0, gridState |-> initialGridState]

(* ======================= caseResult.client ======================= *)

(* the score argument of saveCaseResult: a number, or one of the values    *)
(* the validity test rejects                                               *)
Undefined == [t |-> "undefined"]
NaNScore == [t |-> "NaN"]
Num(n) == [t |-> "number", v |-> n]
validScore(score) == score.t = "number"

(* docData of saveCaseResult: score is a field only of a win with a valid  *)
(* score                                                                   *)
CaseResultDoc(uid, caseId, t, durationMs, penaltyMs, attempts, isWin, score) ==
  LET base == [uid |-> uid, caseId |-> caseId, finishedAt |-> t, durationMs |-> durationMs,
               penaltyMs |-> penaltyMs, attempts |-> attempts, isWin |-> isWin]
  IN IF isWin /\ validScore(score) THEN base @@ [score |-> score.v] ELSE base

(* addDoc(collection(db, "results"), docData): a new document with a new id *)
saveCaseResult(coll, uid, caseId, t, durationMs, penaltyMs, attempts, isWin, score, ok) ==
  IF ok THEN Append(coll, CaseResultDoc(uid, caseId, t, durationMs, penaltyMs, attempts, isWin, score))
  ELSE coll

(* the variant that writes the document {uid}_{caseId} with setDoc merge   *)
saveCaseResultById(coll, uid, caseId, t, durationMs, penaltyMs, attempts, isWin, ok) ==
  LET docId == <<uid, caseId>>
      data == [uid |-> uid, caseId |-> caseId, finishedAt |-> t, durationMs |-> durationMs,
               penaltyMs |-> penaltyMs, attempts |-> attempts, isWin |-> isWin]
  IN IF ~ok THEN coll
     ELSE IF docId \in DOMAIN coll THEN [coll EXCEPT ![docId] = MergeDoc(coll[docId], data)]
     ELSE coll @@ (docId :> data)

(* ======================= userStats.client ======================= *)

(* the quotient truncated instead of rounded *)
MathFloor(a, b) == a \div b

(* Math.round(a / b) for a >= 0 and b > 0: a half is rounded up *)
MathRound(a, b) == (2 * a + b) \div (2 * b)

(* getDocs(query(results, where uid == uid, where isWin == true)): the     *)
(* snapshot, in the order of the collection (the order of the document     *)
(* ids, which is unrelated to finishedAt)                                  *)
WinsOf(coll, uid) == SelectSeq(coll, LAMBDA r : r.uid = uid /\ r.isWin)

(* allResults.sort((a, b) => a.finishedAt - b.finishedAt): a stable sort   *)
RECURSIVE InsertByFinishedAt(_, _)
InsertByFinishedAt(sorted, r) ==
  IF sorted = <<>> THEN <<r>>
  ELSE IF Head(sorted).finishedAt <= r.finishedAt
  THEN <<Head(sorted)>> \o InsertByFinishedAt(Tail(sorted), r)
  ELSE <<r>> \o sorted

RECURSIVE SortByFinishedAt(_)
SortByFinishedAt(allResults) ==
  IF allResults = <<>> THEN <<>>
  ELSE InsertByFinishedAt(SortByFinishedAt(SubSeq(allResults, 1, Len(allResults) - 1)),
                          allResults[Len(allResults)])

(* the grouping that keeps the last record of a case instead of the first *)
RECURSIVE LastSuccessfulAttempts(_, _)
LastSuccessfulAttempts(allResults, map) ==
  IF allResults = <<>> THEN map
  ELSE LET result == Head(allResults)
       IN LastSuccessfulAttempts(Tail(allResults), (result.caseId :> result) @@ map)

(* the loop over allResults that fills the Map firstSuccessfulAttempts:    *)
(* a record is set when its case has no record yet or an older one         *)
RECURSIVE FirstSuccessfulAttempts(_, _)
FirstSuccessfulAttempts(allResults, map) ==
  IF allResults = <<>> THEN map
  ELSE LET result == Head(allResults)
           set == \/ result.caseId \notin DOMAIN map
                  \/ result.finishedAt < map[result.caseId].finishedAt
       IN FirstSuccessfulAttempts(Tail(allResults),
                                  IF set THEN (result.caseId :> result) @@ map ELSE map)

(* result.score || 0, result.durationMs, result.attempts *)
StatField(result, field) ==
  IF field = "score" THEN (IF "score" \in DOMAIN result THEN result.score ELSE 0)
  ELSE result[field]

(* the loop over firstSuccessfulAttempts.entries() that adds up one field *)
RECURSIVE SumField(_, _, _)
SumField(map, keys, field) ==
  IF keys = {} THEN 0
  ELSE LET k == CHOOSE x \in keys : TRUE
       IN StatField(map[k], field) + SumField(map, keys \ {k}, field)

(* the recalculation with solvedCases counting every winning record *)
recalculatedStatsCountAll(coll, uid) ==
  LET allResults == SortByFinishedAt(WinsOf(coll, uid))
      first == FirstSuccessfulAttempts(allResults, <<>>)
      solvedCases == Len(allResults)
      totalDurationMs == SumField(first, DOMAIN first, "durationMs")
  IN [uid |-> uid,
      totalScore |-> SumField(first, DOMAIN first, "score"),
      solvedCases |-> solvedCases,
      averageTimeMs |-> IF solvedCases > 0 THEN MathRound(totalDurationMs, solvedCases) ELSE 0,
      totalAttempts |-> SumField(first, DOMAIN first, "attempts")]

(* the stats object recalculated from the ledger (lastUpdated, a server    *)
(* timestamp, is left out)                                                 *)
recalculatedStats(coll, uid) ==
  LET allResults == SortByFinishedAt(WinsOf(coll, uid))
      first == FirstSuccessfulAttempts(allResults, <<>>)
      solvedCases == Cardinality(DOMAIN first)
      totalDurationMs == SumField(first, DOMAIN first, "durationMs")
  IN [uid |-> uid,
      totalScore |-> SumField(first, DOMAIN first, "score"),
      solvedCases |-> solvedCases,
      averageTimeMs |-> IF solvedCases > 0 THEN MathRound(totalDurationMs, solvedCases) ELSE 0,
      totalAttempts |-> SumField(first, DOMAIN first, "attempts")]

(* the increment logic with the mean of the old average and the new time   *)
incrementedStatsPlainMean(current, uid, caseScore, durationMs, attempts) ==
  IF current # None
  THEN LET existing == current[1]
       IN [uid |-> uid,
           totalScore |-> existing.totalScore + caseScore,
           solvedCases |-> existing.solvedCases + 1,
           averageTimeMs |-> MathRound(existing.averageTimeMs + durationMs, 2),
           totalAttempts |-> existing.totalAttempts + attempts]
  ELSE [uid |-> uid, totalScore |-> caseScore, solvedCases |-> 1,
        averageTimeMs |-> durationMs, totalAttempts |-> attempts]

(* the stats object of the increment logic, from the cached document *)
incrementedStats(current, uid, caseScore, durationMs, attempts) ==
  IF current # None
  THEN LET existing == current[1]
           newSolvedCases == existing.solvedCases + 1
       IN [uid |-> uid,
           totalScore |-> existing.totalScore + caseScore,
           solvedCases |-> newSolvedCases,
           averageTimeMs |-> MathRound(existing.averageTimeMs * existing.solvedCases + durationMs,
                                       newSolvedCases),
           totalAttempts |-> existing.totalAttempts + attempts]
  ELSE [uid |-> uid, totalScore |-> caseScore, solvedCases |-> 1,
        averageTimeMs |-> durationMs, totalAttempts |-> attempts]

(* setDoc(ref, data, {merge: true}) on a document that may not exist *)
SetMerge(doc, data) == IF doc = None THEN Some(data) ELSE Some(MergeDoc(doc[1], data))

(* the recalculated values added to those of the existing document *)
recalculatedDocAccumulated(current, coll, uid, caseScore, durationMs, attempts) ==
  LET r == recalculatedStats(coll, uid)
  IN IF current = None THEN Some(r)
     ELSE Some([r EXCEPT !.totalScore = @ + current[1].totalScore,
                         !.solvedCases = @ + current[1].solvedCases,
                         !.totalAttempts = @ + current[1].totalAttempts])

(* the recalculated values with the completed case of the call added *)
recalculatedDocPlusCall(current, coll, uid, caseScore, durationMs, attempts) ==
  LET r == recalculatedStats(coll, uid)
  IN Some([r EXCEPT !.totalScore = @ + caseScore, !.totalAttempts = @ + attempts])

(* the document after setDoc(ref, {...stats, lastUpdated}, {merge: false}) *)
(* of the recalculation: the document is replaced                          *)
recalculatedDoc(current, coll, uid, caseScore, durationMs, attempts) ==
  Some(recalculatedStats(coll, uid))

(* updateUserStats with a query error other than unavailable thrown to the *)
(* caller                                                                  *)
updateUserStatsQueryErrorThrown(current, coll, uid, caseScore, durationMs, attempts, q, w1, w2) ==
  LET incremented == SetMerge(current, incrementedStats(current, uid, caseScore, durationMs, attempts))
      fallback == IF w2 THEN <<incremented, "fallback">> ELSE <<current, "throw">>
  IN IF q = "ok"
     THEN (IF w1 THEN <<recalculatedDoc(current, coll, uid, caseScore, durationMs, attempts), "full">>
           ELSE fallback)
     ELSE IF q = "offline" THEN (IF w1 THEN <<incremented, "fallback">> ELSE fallback)
     ELSE <<current, "throw">>

(* updateUserStats(uid, caseScore, durationMs, attempts) on the document   *)
(* current; the value is <<document, path>>.  q is the outcome of getDocs  *)
(* ("ok", "offline": it throws unavailable, "error": it throws another     *)
(* error); w1: the store accepts the first setDoc of the run; w2: it       *)
(* accepts the setDoc of the fallback after a recalculation that threw.    *)
(* path is "full" (recalculated values written with merge: false),         *)
(* "fallback" (incremented values merged) or "throw"                       *)
updateUserStats(current, coll, uid, caseScore, durationMs, attempts, q, w1, w2) ==
  LET incremented == SetMerge(current, incrementedStats(current, uid, caseScore, durationMs, attempts))
      fallback == IF w2 THEN <<incremented, "fallback">> ELSE <<current, "throw">>
  IN IF q = "ok"
     THEN (IF w1 THEN <<recalculatedDoc(current, coll, uid, caseScore, durationMs, attempts), "full">>
           ELSE fallback)
     ELSE IF q = "offline" THEN (IF w1 THEN <<incremented, "fallback">> ELSE fallback)
     ELSE fallback

(* getUserStats(uid): the cached document, or null *)
getUserStats(docs, uid) == docs[uid]

(* ======================= leaderboard.client ======================= *)

(* the test with the equal score writing too *)
caseEntryBeatenOrEqual(existing, score) ==
  existing = None \/ ~(existing[1].score > score)

(* updateCaseLeaderboard after getDoc: the call goes on to setDoc when     *)
(* there is no entry or not existingData.score >= score                    *)
caseEntryBeaten(existing, score) ==
  existing = None \/ ~(existing[1].score >= score)

(* the data of the setDoc of updateCaseLeaderboard (displayName, photoURL  *)
(* and updatedAt, which no code compares, are left out)                    *)
caseEntryData(uid, score, durationMs, attempts) ==
  [uid |-> uid, score |-> score, durationMs |-> durationMs, attempts |-> attempts]

(* the global entry written only when the score is higher, like the entry *)
(* of a case                                                               *)
updateGlobalLeaderboardIfHigher(entry, uid, totalScore, solvedCases) ==
  IF entry # None /\ entry[1].score >= totalScore THEN entry
  ELSE SetMerge(entry, [uid |-> uid, score |-> totalScore, solvedCases |-> solvedCases])

(* the entry after updateGlobalLeaderboard: setDoc merge, unconditional *)
updateGlobalLeaderboard(entry, uid, totalScore, solvedCases) ==
  SetMerge(entry, [uid |-> uid, score |-> totalScore, solvedCases |-> solvedCases])

(* ============================ CaseClient ============================ *)

PageUser == "u1"

allSelected(finalSuspect, finalLocation, finalWeapon) ==
  finalSuspect # "" /\ finalLocation # "" /\ finalWeapon # ""

(* the comparison with the weapon left out *)
isCorrectNoWeapon(finalSuspect, finalLocation, finalWeapon) ==
  /\ finalSuspect = Solution.suspectId
  /\ finalLocation = Solution.locationId

isCorrect(finalSuspect, finalLocation, finalWeapon) ==
  /\ finalSuspect = Solution.suspectId
  /\ finalLocation = Solution.locationId
  /\ finalWeapon = Solution.weaponId

(* an effect without its cleanup: the timeout stays pending *)
clearTimeoutMissing(tm, tid) == tm

(* clearTimeout(timeoutId), the cleanup of the debounced save effect *)
clearTimeout(tm, tid) == IF tid = None THEN tm ELSE tm \ {tid[1]}

(* one run of the debounced save effect after a change of gridState,       *)
(* activeCase or isLoading: the cleanup of the previous run, then a new    *)
(* timeout unless activeCase is null or the page is loading.  The value is *)
(* <<timers, timeoutId>>                                                   *)
SaveEffect(tm, tid, ac, grid, loading, t) ==
  LET cleaned == clearTimeout(tm, tid)
      new == [deadline |-> t + DEBOUNCE_MS, activeCase |-> ac[1], gridState |-> grid]
  IN IF ac = None \/ loading THEN <<cleaned, None>>
     ELSE <<cleaned \cup {new}, Some(new)>>

Idle == [kind |-> "idle"]

(* the state of a freshly mounted component *)
FreshPage ==
  /\ activeCase' = None
  /\ gridState' = getInitialGridState
  /\ resultState' = None
  /\ isSubmitting' = FALSE
  /\ isLoading' = TRUE

(* history: a new session was written by initializeActiveCase *)
NewSession(h, ok) ==
  IF ok THEN [h EXCEPT !.sessSubmits = 0, !.sessWrong = 0, !.sessWins = 0, !.sessFailed = FALSE]
  ELSE [h EXCEPT !.sessFailed = TRUE]

(* history: the debounced save effect ran again *)
EffectRan(h) == [h EXCEPT !.saves = 0, !.lastSave = None]

HistInit ==
  [submits |-> 0, calls |-> 0, addCalls |-> 0, byIdCalls |-> 0,
   sessSubmits |-> 0, sessWrong |-> 0, sessWins |-> 0,
   sessFailed |-> FALSE, finishedHere |-> FALSE, lastEditAt |-> None, burst |-> 0,
   saves |-> 0, lastSave |-> None, returned |-> FALSE,
   statRuns |-> 0, lastPath |-> "none", fullLen |-> None, repeated |-> FALSE,
   healed |-> FALSE, lbCalls |-> <<>>,
   lastCall |-> None, pcRuns |-> 0, preStats |-> None, produced |-> None]

Init ==
  /\ now = 0
  /\ stored = None
  /\ results = <<>>
  /\ resultsById = <<>>
  /\ authUser = Some(PageUser)
  /\ mounted = TRUE
  /\ activeCase = None
  /\ gridState = getInitialGridState
  /\ resultState = None
  /\ isSubmitting = FALSE
  /\ isLoading = TRUE
  /\ timers = {}
  /\ timeoutId = None
  /\ loadPc = [kind |-> "reading"]
  /\ pc = Idle
  /\ stats = [u \in Users |-> None]
  /\ globalLb = [u \in Users |-> None]
  /\ caseLb = [k \in LedgerCases \X Users |-> None]
  /\ runs = [p \in Procs |-> Idle]
  /\ hist = HistInit

(* the component is mounted again (the page is opened again) *)
Mount ==
  /\ UNCHANGED rankVars
  /\ ~mounted /\ pc = Idle /\ loadPc = Idle
  /\ mounted' = TRUE
  /\ FreshPage
  /\ loadPc' = [kind |-> "reading"]
  /\ UNCHANGED <<now, stored, results, resultsById, authUser, timers, timeoutId, pc, hist>>

(* the component is unmounted: mounted = false in loadActiveCase and the   *)
(* cleanup of the save effect                                              *)
Unmount ==
  /\ UNCHANGED rankVars
  /\ mounted
  /\ mounted' = FALSE
  /\ FreshPage
  /\ timers' = clearTimeout(timers, timeoutId)
  /\ timeoutId' = None
  /\ hist' = [hist EXCEPT !.finishedHere = FALSE, !.lastEditAt = None, !.burst = 0,
                          !.saves = 0, !.lastSave = None, !.returned = FALSE]
  /\ UNCHANGED <<now, stored, results, resultsById, authUser, loadPc, pc>>

(* loadActiveCase up to its first await: getActiveCase returns (readOk) or *)
(* throws; a playing session is taken over, otherwise, and on a read error *)
(* in the catch block, initializeActiveCase issues its write (ok: the      *)
(* store accepts it)                                                       *)
LoadRead(readOk, ok) ==
  /\ UNCHANGED rankVars
  /\ loadPc.kind = "reading"
  /\ UNCHANGED <<now, results, resultsById, authUser, mounted, resultState, isSubmitting, pc>>
  /\ LET rec == initializeActiveCase(CaseId, getInitialGridState, now)
     IN IF readOk /\ ~mounted
        THEN \* if (!mounted) return
             /\ loadPc' = Idle
             /\ UNCHANGED <<stored, activeCase, gridState, isLoading, timers, timeoutId, hist>>
        ELSE IF readOk /\ stored # None /\ stored[1].status = "playing"
        THEN \* setActiveCase(loaded); setGridState(loaded.gridState); finally
             /\ activeCase' = stored
             /\ gridState' = stored[1].gridState
             /\ isLoading' = FALSE
             /\ LET e == SaveEffect(timers, timeoutId, stored, stored[1].gridState, FALSE, now)
                IN timers' = e[1] /\ timeoutId' = e[2]
             /\ loadPc' = Idle
             /\ hist' = EffectRan(hist)
             /\ UNCHANGED stored
        ELSE \* initializeActiveCase, in the try block or in the catch block
             /\ stored' = saveActiveCase(stored, rec, ok)
             /\ loadPc' = [kind |-> IF readOk THEN "init1" ELSE "init2", rec |-> rec, ok |-> ok]
             /\ hist' = NewSession(hist, ok)
             /\ UNCHANGED <<activeCase, gridState, isLoading, timers, timeoutId>>

(* the write of initializeActiveCase has settled.  In the try block a      *)
(* rejection leads to the catch block, which initializes again (ok2); in   *)
(* the catch block a rejection is logged.  finally: setIsLoading(false)    *)
LoadInitDone(ok2) ==
  /\ UNCHANGED rankVars
  /\ loadPc.kind \in {"init1", "init2"}
  /\ UNCHANGED <<now, results, resultsById, authUser, mounted, gridState, resultState, isSubmitting, pc>>
  /\ IF loadPc.kind = "init1" /\ ~loadPc.ok
     THEN LET rec == initializeActiveCase(CaseId, getInitialGridState, now)
          IN /\ stored' = saveActiveCase(stored, rec, ok2)
             /\ loadPc' = [kind |-> "init2", rec |-> rec, ok |-> ok2]
             /\ hist' = NewSession(hist, ok2)
             /\ UNCHANGED <<activeCase, isLoading, timers, timeoutId>>
     ELSE LET ac == IF loadPc.ok THEN Some(loadPc.rec) ELSE None
          IN /\ loadPc' = Idle
             /\ UNCHANGED stored
             /\ IF mounted
                THEN /\ activeCase' = ac
                     /\ isLoading' = FALSE
                     /\ LET e == SaveEffect(timers, timeoutId, ac, gridState, FALSE, now)
                        IN timers' = e[1] /\ timeoutId' = e[2]
                     /\ hist' = EffectRan(hist)
                ELSE UNCHANGED <<activeCase, isLoading, timers, timeoutId, hist>>

(* handleGridStateChange(newState): the grid is edited; the save effect    *)
(* runs again                                                              *)
handleGridStateChange(newState) ==
  /\ UNCHANGED rankVars
  /\ mounted /\ ~isLoading /\ resultState = None
  /\ newState # gridState
  /\ gridState' = newState
  /\ LET e == SaveEffect(timers, timeoutId, activeCase, newState, isLoading, now)
     IN timers' = e[1] /\ timeoutId' = e[2]
  /\ hist' = [EffectRan(hist) EXCEPT
                !.burst = IF hist.lastEditAt # None /\ now - hist.lastEditAt[1] < DEBOUNCE_MS
                          THEN (IF @ < MaxBurst THEN @ + 1 ELSE @) ELSE 1,
                !.lastEditAt = Some(now)]
  /\ UNCHANGED <<now, stored, results, resultsById, authUser, mounted, activeCase,
                 resultState, isSubmitting, isLoading, loadPc, pc>>

(* the callback of a timeout of the save effect runs:                      *)
(* saveActiveCase({...activeCase, gridState}) with the values of the       *)
(* render that created the timeout; a rejection is logged                  *)
DebouncedSave(tm, ok) ==
  /\ UNCHANGED rankVars
  /\ tm \in timers
  /\ now >= tm.deadline
  /\ stored' = saveActiveCase(stored, [tm.activeCase EXCEPT !.gridState = tm.gridState], ok)
  /\ timers' = timers \ {tm}
  /\ hist' = [hist EXCEPT !.saves = @ + 1,
                          !.lastSave = Some([gridState |-> tm.gridState, at |-> now]),
                          !.sessFailed = @ \/ ~ok]
  /\ UNCHANGED <<now, results, resultsById, authUser, mounted, activeCase, gridState,
                 resultState, isSubmitting, isLoading, timeoutId, loadPc, pc>>

(* the test of the first line of onSubmitReport without !activeCase *)
submitGuardNoSession(sel, submitting, isModalOpen, ac) ==
  sel /\ ~submitting /\ ~isModalOpen

(* the test of the first line of onSubmitReport: the handler goes on when  *)
(* it holds and returns when it does not                                   *)
submitGuard(sel, submitting, isModalOpen, ac) ==
  sel /\ ~submitting /\ ~isModalOpen /\ ac # None

(* onSubmitReport up to its await: a click on the submit button.  The      *)
(* selects are enabled exactly when the button is, so the triple is an     *)
(* input of the click.  okR: the store accepts the result record; okS: it  *)
(* accepts the session write                                               *)
onSubmitReport(finalSuspect, finalLocation, finalWeapon, okR, okS) ==
  /\ UNCHANGED rankVars
  /\ mounted /\ ~isLoading /\ pc = Idle
  \* the button: disabled={!allSelected || isSubmitting || isModalOpen || status === "finished"}
  /\ allSelected(finalSuspect, finalLocation, finalWeapon)
  /\ ~isSubmitting /\ resultState = None
  /\ ~(activeCase # None /\ activeCase[1].status = "finished")
  /\ hist.submits < MaxSubmits
  /\ UNCHANGED <<now, resultsById, authUser, mounted, activeCase, gridState, resultState,
                 isLoading, timers, timeoutId, loadPc>>
  /\ IF ~submitGuard(allSelected(finalSuspect, finalLocation, finalWeapon), isSubmitting,
                     resultState # None, activeCase)
     THEN \* if (!allSelected || isSubmitting || isModalOpen || !activeCase) return
          /\ hist' = [hist EXCEPT !.returned = TRUE]
          /\ UNCHANGED <<stored, results, isSubmitting, pc>>
     ELSE IF activeCase = None
     THEN \* setIsSubmitting(true); activeCase.attempts of null throws a TypeError
          /\ isSubmitting' = TRUE
          /\ UNCHANGED <<stored, results, pc, hist>>
     ELSE
     /\ isSubmitting' = TRUE
     /\ LET ac == activeCase[1]
            triple == <<finalSuspect, finalLocation, finalWeapon>>
            newAttempts == ac.attempts + 1
        IN IF isCorrect(finalSuspect, finalLocation, finalWeapon)
           THEN LET durationMs == now - ac.startedAt + ac.penaltyMs
                IN /\ results' = saveCaseResult(results, PageUser, CaseId, now, durationMs,
                                                ac.penaltyMs, newAttempts, TRUE, Undefined, okR)
                   /\ stored' = saveActiveCase(stored,
                                   [ac EXCEPT !.status = "finished", !.attempts = newAttempts,
                                              !.gridState = gridState], okS)
                   /\ pc' = [kind |-> "awaitWin", ok |-> okS, triple |-> triple,
                             durationMs |-> durationMs, newAttempts |-> newAttempts,
                             penaltyMs |-> ac.penaltyMs]
                   /\ hist' = [hist EXCEPT !.submits = @ + 1, !.sessSubmits = @ + 1,
                                           !.sessWins = @ + 1,
                                           !.sessFailed = @ \/ ~okR \/ ~okS]
           ELSE LET updated == [ac EXCEPT !.attempts = newAttempts,
                                          !.penaltyMs = ac.penaltyMs + PENALTY_MS,
                                          !.gridState = gridState]
                IN /\ stored' = saveActiveCase(stored, updated, okS)
                   /\ pc' = [kind |-> "awaitWrong", ok |-> okS, triple |-> triple,
                             updated |-> updated]
                   /\ hist' = [hist EXCEPT !.submits = @ + 1, !.sessSubmits = @ + 1,
                                           !.sessWrong = @ + 1, !.sessFailed = @ \/ ~okS]
                   /\ UNCHANGED results

(* the handler with the rejection of the session write caught: it goes on  *)
awaitRejectionCaught(p) == FALSE

(* await saveActiveCase(...) throws when the write was rejected: the rest   *)
(* of the handler is skipped                                               *)
awaitRejected(p) == ~p.ok

(* onSubmitReport after its await: a rejected saveActiveCase throws out of *)
(* the handler; otherwise the result is shown, and on a wrong attempt the  *)
(* penalised session becomes the state and the result record is saved.     *)
(* State setters of an unmounted component do nothing                      *)
onSubmitReportResume(okR) ==
  /\ UNCHANGED rankVars
  /\ pc.kind \in {"awaitWin", "awaitWrong"}
  /\ pc' = IF "second" \in DOMAIN pc THEN pc.second ELSE Idle
  /\ UNCHANGED <<now, stored, resultsById, authUser, mounted, gridState, isLoading, loadPc>>
  /\ IF awaitRejected(pc)
     THEN UNCHANGED <<results, activeCase, resultState, isSubmitting, timers, timeoutId, hist>>
     ELSE IF pc.kind = "awaitWin"
     THEN /\ UNCHANGED <<results, activeCase, timers, timeoutId>>
          /\ IF mounted
             THEN /\ resultState' = Some([type |-> "success",
                                          duration |-> pc.durationMs \div 1000,
                                          attempts |-> pc.newAttempts,
                                          penaltyMs |-> pc.penaltyMs])
                  /\ isSubmitting' = FALSE
                  /\ hist' = [hist EXCEPT !.finishedHere = TRUE]
             ELSE UNCHANGED <<resultState, isSubmitting, hist>>
     ELSE LET updated == pc.updated
              durationMs == now - updated.startedAt + updated.penaltyMs
          IN /\ results' = saveCaseResult(results, PageUser, CaseId, now, durationMs,
                                          updated.penaltyMs, updated.attempts, FALSE,
                                          Undefined, okR)
             /\ IF mounted
                THEN /\ activeCase' = Some(updated)
                     /\ LET e == SaveEffect(timers, timeoutId, Some(updated), gridState,
                                            isLoading, now)
                        IN timers' = e[1] /\ timeoutId' = e[2]
                     /\ resultState' = Some([type |-> "failure",
                                             duration |-> durationMs \div 1000,
                                             attempts |-> updated.attempts,
                                             penaltyMs |-> updated.penaltyMs])
                     /\ isSubmitting' = FALSE
                     /\ hist' = [EffectRan(hist) EXCEPT !.sessFailed = @ \/ ~okR]
                ELSE /\ UNCHANGED <<activeCase, timers, timeoutId, resultState, isSubmitting>>
                     /\ hist' = [hist EXCEPT !.sessFailed = @ \/ ~okR]

closeResultModal ==
  /\ UNCHANGED rankVars
  /\ mounted /\ resultState # None
  /\ resultState' = None
  /\ UNCHANGED <<now, stored, results, resultsById, authUser, mounted, activeCase, gridState,
                 isSubmitting, isLoading, timers, timeoutId, loadPc, pc, hist>>

(* the clock advances *)
Tick(limit) ==
  /\ UNCHANGED rankVars
  /\ now < limit * TickMs
  /\ now' = now + TickMs
  /\ UNCHANGED <<stored, results, resultsById, authUser, pageVars, hist>>

Load ==
  \/ \E readOk \in BOOLEAN, ok \in BOOLEAN : LoadRead(readOk, ok)
  \/ \E ok2 \in BOOLEAN : LoadInitDone(ok2)

Submission ==
  \/ \E s \in SuspectIds, l \in LocationIds, w \in WeaponIds, okR \in BOOLEAN, okS \in BOOLEAN :
       onSubmitReport(s, l, w, okR, okS)
  \/ \E okR \in BOOLEAN : onSubmitReportResume(okR)
  \/ closeResultModal

GridEditing ==
  \/ \E g \in Grids : handleGridStateChange(g)
  \/ \E tm \in timers, ok \in BOOLEAN : DebouncedSave(tm, ok)

(* the case page: every handler, the clock, and the page closed and opened *)
Next ==
  \/ Mount
  \/ Unmount
  \/ Load
  \/ GridEditing
  \/ Submission
  \/ Tick(MaxTicks)

Spec == Init /\ [][Next]_vars

(* the case page with grid edits only: no report is submitted *)
NextGrid ==
  \/ Mount
  \/ Unmount
  \/ Load
  \/ GridEditing
  \/ Tick(MaxGridTicks)

SpecGrid == Init /\ [][NextGrid]_vars

(* the same with the clock advancing, a timeout that is due running and    *)
(* the load going on; nothing makes the player edit the grid or leave      *)
SpecGridFair ==
  /\ Init /\ [][NextGrid]_vars
  /\ WF_vars(Tick(MaxGridTicks))
  /\ WF_vars(\E tm \in timers, ok \in BOOLEAN : DebouncedSave(tm, ok))
  /\ WF_vars(Load)

(* the case page with the clock stopped: no timeout comes due *)
NextSubmit ==
  \/ Mount
  \/ Unmount
  \/ Load
  \/ \E g \in Grids : handleGridStateChange(g)
  \/ Submission

SpecSubmit == Init /\ [][NextSubmit]_vars

(* the same with the store settling every session write the handler       *)
(* awaits and the load going on; nothing makes the player click            *)
SpecSubmitFair ==
  /\ Init /\ [][NextSubmit]_vars
  /\ WF_vars(\E okR \in BOOLEAN : onSubmitReportResume(okR))
  /\ WF_vars(Load)

(* onSubmitReport invoked a second time before the component has rendered *)
(* again after setIsSubmitting(true) of the first invocation: the handler  *)
(* is the function of the last render, whose isSubmitting is false, whose  *)
(* modal is closed and whose activeCase and selection are those of the     *)
(* first invocation.  It runs up to its await; it goes on after the first  *)
(* run                                                                     *)
onSubmitReportAgain(okR, okS) ==
  /\ UNCHANGED rankVars
  /\ mounted /\ pc.kind \in {"awaitWin", "awaitWrong"} /\ "second" \notin DOMAIN pc
  /\ hist.submits < MaxSubmits
  /\ UNCHANGED <<now, resultsById, authUser, mounted, activeCase, gridState, resultState,
                 isLoading, timers, timeoutId, loadPc>>
  /\ IF ~submitGuard(allSelected(pc.triple[1], pc.triple[2], pc.triple[3]), FALSE, FALSE,
                     activeCase)
     THEN /\ hist' = [hist EXCEPT !.returned = TRUE]
          /\ UNCHANGED <<stored, results, isSubmitting, pc>>
     ELSE
     /\ isSubmitting' = TRUE
     /\ LET ac == activeCase[1]
            newAttempts == ac.attempts + 1
        IN IF isCorrect(pc.triple[1], pc.triple[2], pc.triple[3])
           THEN LET durationMs == now - ac.startedAt + ac.penaltyMs
                IN /\ results' = saveCaseResult(results, PageUser, CaseId, now, durationMs,
                                                ac.penaltyMs, newAttempts, TRUE, Undefined, okR)
                   /\ stored' = saveActiveCase(stored,
                                   [ac EXCEPT !.status = "finished", !.attempts = newAttempts,
                                              !.gridState = gridState], okS)
                   /\ pc' = pc @@ [second |->
                               [kind |-> "awaitWin", ok |-> okS, triple |-> pc.triple,
                                durationMs |-> durationMs, newAttempts |-> newAttempts,
                                penaltyMs |-> ac.penaltyMs]]
                   /\ hist' = [hist EXCEPT !.submits = @ + 1, !.sessSubmits = @ + 1,
                                           !.sessWins = @ + 1,
                                           !.sessFailed = @ \/ ~okR \/ ~okS]
           ELSE LET updated == [ac EXCEPT !.attempts = newAttempts,
                                          !.penaltyMs = ac.penaltyMs + PENALTY_MS,
                                          !.gridState = gridState]
                IN /\ stored' = saveActiveCase(stored, updated, okS)
                   /\ pc' = pc @@ [second |->
                               [kind |-> "awaitWrong", ok |-> okS, triple |-> pc.triple,
                                updated |-> updated]]
                   /\ hist' = [hist EXCEPT !.submits = @ + 1, !.sessSubmits = @ + 1,
                                           !.sessWrong = @ + 1, !.sessFailed = @ \/ ~okS]
                   /\ UNCHANGED results

(* the case page with the clock stopped and the submit handler invoked     *)
(* twice in a row                                                          *)
NextDouble ==
  \/ NextSubmit
  \/ \E okR \in BOOLEAN, okS \in BOOLEAN : onSubmitReportAgain(okR, okS)

SpecDouble == Init /\ [][NextDouble]_vars

(* ====================== the ledger called directly ====================== *)

LedgerScores == {Undefined, NaNScore, Num(100)}
LedgerDurations == {60000, 90000}

SignIn(u) ==
  /\ UNCHANGED rankVars
  /\ authUser # Some(u)
  /\ authUser' = Some(u)
  /\ UNCHANGED <<now, stored, results, resultsById, pageVars, hist>>

(* one call of saveCaseResult (addDoc) by the signed-in user, run to its end *)
LedgerAdd(caseId, durationMs, isWin, score, ok) ==
  /\ UNCHANGED rankVars
  /\ authUser # None
  /\ hist.calls < MaxCalls
  /\ results' = saveCaseResult(results, authUser[1], caseId, now, durationMs, 0, 1, isWin, score, ok)
  /\ hist' = [hist EXCEPT !.calls = @ + 1, !.addCalls = IF ok THEN @ + 1 ELSE @]
  /\ UNCHANGED <<now, stored, resultsById, authUser, pageVars>>

(* one call of the variant of saveCaseResult keyed by {uid}_{caseId} *)
LedgerSetById(caseId, durationMs, isWin, ok) ==
  /\ UNCHANGED rankVars
  /\ authUser # None
  /\ hist.calls < MaxCalls
  /\ resultsById' = saveCaseResultById(resultsById, authUser[1], caseId, now, durationMs, 0, 1, isWin, ok)
  /\ hist' = [hist EXCEPT !.calls = @ + 1, !.byIdCalls = IF ok THEN @ + 1 ELSE @]
  /\ UNCHANGED <<now, stored, results, authUser, pageVars>>

NextLedger ==
  \/ \E u \in Users : SignIn(u)
  \/ \E c \in LedgerCases, d \in LedgerDurations, isWin \in BOOLEAN, sc \in LedgerScores, ok \in BOOLEAN :
       LedgerAdd(c, d, isWin, sc, ok)
  \/ \E c \in LedgerCases, d \in LedgerDurations, isWin \in BOOLEAN, ok \in BOOLEAN :
       LedgerSetById(c, d, isWin, ok)

SpecLedger == Init /\ [][NextLedger]_vars

(* ================= the statistics called directly ================= *)

Plays == {[score |-> Undefined, durationMs |-> 60000, attempts |-> 1],
          [score |-> Num(250), durationMs |-> 90001, attempts |-> 2]}

(* the arguments caseScore, durationMs, attempts of a call *)
CallArgs == {[caseScore |-> 100, durationMs |-> 60000, attempts |-> 1],
             [caseScore |-> 250, durationMs |-> 90001, attempts |-> 2]}

(* the calls of saveCaseResult that fill the ledger.  Of the signed-in     *)
(* user: a late win of case-001 with a score, an early and a late win of   *)
(* it without one, a win of case-002 and a lost attempt; and a win of      *)
(* another user                                                            *)
ResultInputs ==
  LET plain == CHOOSE play \in Plays : play.score = Undefined
      scored == CHOOSE play \in Plays : play.score # Undefined
      input(uid, caseId, t, play, isWin) ==
        [uid |-> uid, caseId |-> caseId, t |-> t, play |-> play, isWin |-> isWin]
  IN {input(PageUser, "case-001", 2000, scored, TRUE),
      input(PageUser, "case-001", 1000, plain, TRUE),
      input(PageUser, "case-001", 2000, plain, TRUE),
      input(PageUser, "case-002", 1000, plain, TRUE),
      input(PageUser, "case-001", 1000, scored, FALSE),
      input("u2", "case-001", 1000, scored, TRUE)}

(* saveCaseResult of a device of user i.uid whose Date.now() is i.t *)
AppendResult(i) ==
  /\ Len(results) < MaxLedger
  /\ results' = saveCaseResult(results, i.uid, i.caseId, i.t, i.play.durationMs, 0,
                               i.play.attempts, i.isWin, i.play.score, TRUE)
  /\ hist' = [hist EXCEPT !.repeated = FALSE, !.healed = FALSE]
  /\ UNCHANGED <<now, stored, resultsById, authUser, pageVars, rankVars>>

(* one call of updateUserStats for the signed-in user, run to its end *)
UpdateStats(a, q, w1, w2) ==
  /\ authUser # None
  /\ hist.statRuns < MaxStatRuns
  /\ LET uid == authUser[1]
         r == updateUserStats(stats[uid], results, uid, a.caseScore, a.durationMs,
                              a.attempts, q, w1, w2)
     IN /\ stats' = [stats EXCEPT ![uid] = r[1]]
        /\ hist' = [hist EXCEPT
              !.statRuns = @ + 1,
              !.lastPath = r[2],
              !.lastCall = Some([q |-> q, w1 |-> w1, w2 |-> w2]),
              !.fullLen = IF r[2] = "full" THEN Some(Len(results))
                          ELSE IF r[2] = "fallback" THEN None ELSE @,
              !.repeated = (r[2] = "full" /\ hist.fullLen = Some(Len(results))),
              !.healed = (r[2] = "full" /\ hist.lastPath = "fallback" /\ stats[uid] # r[1])]
  /\ UNCHANGED <<now, stored, results, resultsById, authUser, pageVars, globalLb, caseLb, runs>>

GetDocsOutcomes == {"ok", "offline", "error"}

(* the answers of the store to one run of updateUserStats; the flag of a   *)
(* setDoc that the run does not reach is TRUE                              *)
StoreOutcomes ==
  {o \in [q : GetDocsOutcomes, w1 : BOOLEAN, w2 : BOOLEAN] :
     /\ (o.q = "error" => o.w1)
     /\ ((o.q # "error" /\ o.w1) => o.w2)}

NextStats ==
  \/ \E i \in ResultInputs : AppendResult(i)
  \/ \E a \in CallArgs, o \in StoreOutcomes : UpdateStats(a, o.q, o.w1, o.w2)

SpecStats == Init /\ [][NextStats]_vars

(* ============== the per-case leaderboard called directly ============== *)

LbScores == {10, 30, 50, 80}
LbKey == <<CaseId, PageUser>>
AllIdle == \A p \in Procs : runs[p] = Idle

(* updateCaseLeaderboard of caller p up to its setDoc: getDoc resolves     *)
(* with the entry as it is now; the call returns, or issues its setDoc.    *)
(* limit bounds the number of calls                                        *)
caseLbRead(p, score, play, limit) ==
  /\ runs[p] = Idle
  /\ Len(hist.lbCalls) + Cardinality({q \in Procs : runs[q] # Idle}) < limit
  /\ LET data == caseEntryData(PageUser, score, play.durationMs, play.attempts)
     IN IF caseEntryBeaten(caseLb[LbKey], score)
        THEN /\ runs' = [runs EXCEPT ![p] = [kind |-> "lbWrite", data |-> data]]
             /\ UNCHANGED hist
        ELSE \* return: the existing score is better or equal
             /\ hist' = [hist EXCEPT !.lbCalls = Append(@, data)]
             /\ UNCHANGED runs
  /\ UNCHANGED <<now, stored, results, resultsById, authUser, pageVars, stats, globalLb, caseLb>>

(* the setDoc of caller p reaches the store: the entry is merged (ok), or  *)
(* the store rejects the write and the call throws                         *)
caseLbWrite(p, ok) ==
  /\ runs[p].kind = "lbWrite"
  /\ runs' = [runs EXCEPT ![p] = Idle]
  /\ IF ok
     THEN /\ caseLb' = [caseLb EXCEPT ![LbKey] = SetMerge(@, runs[p].data)]
          /\ hist' = [hist EXCEPT !.lbCalls = Append(@, runs[p].data)]
     ELSE UNCHANGED <<caseLb, hist>>
  /\ UNCHANGED <<now, stored, results, resultsById, authUser, pageVars, stats, globalLb>>

(* calls that do not overlap: a call starts when no call is in flight *)
NextLbSeq ==
  \/ \E p \in Procs, score \in LbScores, play \in Plays :
       AllIdle /\ caseLbRead(p, score, play, MaxLbCalls)
  \/ \E p \in Procs, ok \in BOOLEAN : caseLbWrite(p, ok)

SpecLbSeq == Init /\ [][NextLbSeq]_vars

(* calls of two devices, with their reads and writes in any order *)
NextLbRace ==
  \/ \E p \in Procs, score \in LbScores, play \in Plays : caseLbRead(p, score, play, MaxRaceCalls)
  \/ \E p \in Procs, ok \in BOOLEAN : caseLbWrite(p, ok)

SpecLbRace == Init /\ [][NextLbRace]_vars

(* ===================== processCaseCompletion ===================== *)

Rejected(step) == [kind |-> "rejected", step |-> step]

(* processCaseCompletion(caseId, ..., durationMs, ..., attempts, score) of *)
(* caller p with auth.currentUser set: processWithUser runs updateUserStats *)
(* (q, w1, w2 as in updateUserStats); a throw rejects the promise          *)
processCaseCompletion(p, a, q, w1, w2) ==
  /\ authUser # None
  /\ AllIdle
  /\ hist.pcRuns < MaxRuns
  /\ LET uid == authUser[1]
         r == updateUserStats(stats[uid], results, uid, a.caseScore, a.durationMs,
                              a.attempts, q, w1, w2)
     IN /\ stats' = [stats EXCEPT ![uid] = r[1]]
        /\ runs' = [runs EXCEPT ![p] =
                      IF r[2] = "throw" THEN Rejected("updateUserStats")
                      ELSE [kind |-> "getUserStats", uid |-> uid, args |-> a, nulls |-> 0]]
        /\ hist' = [hist EXCEPT !.pcRuns = @ + 1, !.preStats = stats[uid],
                                !.produced = IF r[2] = "throw" THEN None ELSE r[1]]
  /\ UNCHANGED <<now, stored, results, resultsById, authUser, pageVars, globalLb, caseLb>>

GetStatsOutcomes == {"data", "null", "throw"}

(* the message of the error thrown after the last read without stats *)
StatsReadFailed == "Failed to get user stats after update and retries"

(* a third retry before the read-back gives up *)
readBackExhaustedLater(nulls) == nulls = 3

(* the read-back gives up when the read after the second delay returns no  *)
(* stats either: nulls counts the reads without stats made before          *)
readBackExhausted(nulls) == nulls = 2

(* a step whose catch block logs and does not rethrow: the run goes on *)
afterStepCaught(ok, step, next) == next

(* try { await step } catch (error) { throw error }: the run goes on to    *)
(* next when the step succeeded and rejects when it failed                 *)
afterStep(ok, step, next) == IF ok THEN next ELSE Rejected(step)

(* processWithUser: getUserStats settles with the document ("data"), with  *)
(* null (cache miss while offline) or throws; after a null the read is     *)
(* tried again, twice, 1000 ms later each time, and the third null throws  *)
readBackStats(p, outcome) ==
  /\ runs[p].kind = "getUserStats"
  /\ LET read == getUserStats(stats, runs[p].uid)
     IN runs' = [runs EXCEPT ![p] =
                   IF outcome = "throw" THEN Rejected("getUserStats")
                   ELSE IF outcome = "data" /\ read # None
                   THEN [kind |-> "updateGlobalLeaderboard", uid |-> @.uid, args |-> @.args,
                         stats |-> read[1]]
                   ELSE IF readBackExhausted(@.nulls) THEN Rejected(StatsReadFailed)
                   ELSE [@ EXCEPT !.nulls = @ + 1]]
  /\ UNCHANGED <<now, stored, results, resultsById, authUser, pageVars, stats, globalLb,
                 caseLb, hist>>

(* processWithUser: updateGlobalLeaderboard(uid, ..., stats.totalScore,    *)
(* stats.solvedCases) settles (ok: the store accepts the write)            *)
writeGlobalEntry(p, ok) ==
  /\ runs[p].kind = "updateGlobalLeaderboard"
  /\ globalLb' = IF ok
                 THEN [globalLb EXCEPT ![runs[p].uid] =
                         updateGlobalLeaderboard(@, runs[p].uid, runs[p].stats.totalScore,
                                                 runs[p].stats.solvedCases)]
                 ELSE globalLb
  /\ runs' = [runs EXCEPT ![p] =
                afterStep(ok, "updateGlobalLeaderboard",
                          [kind |-> "updateCaseLeaderboard", uid |-> @.uid, args |-> @.args])]
  /\ UNCHANGED <<now, stored, results, resultsById, authUser, pageVars, stats, caseLb, hist>>

(* processWithUser: updateCaseLeaderboard(uid, ..., caseId, score,         *)
(* durationMs, attempts) reads the entry and returns or issues its setDoc  *)
readCaseEntry(p, readOk) ==
  /\ runs[p].kind = "updateCaseLeaderboard"
  /\ LET a == runs[p].args
         data == caseEntryData(runs[p].uid, a.caseScore, a.durationMs, a.attempts)
     IN runs' = [runs EXCEPT ![p] =
                   IF ~readOk THEN Rejected("updateCaseLeaderboard")
                   ELSE IF caseEntryBeaten(caseLb[<<CaseId, runs[p].uid>>], a.caseScore)
                   THEN [kind |-> "setCaseEntry", uid |-> @.uid, data |-> data]
                   ELSE [kind |-> "resolved"]]
  /\ UNCHANGED <<now, stored, results, resultsById, authUser, pageVars, stats, globalLb,
                 caseLb, hist>>

(* the setDoc of updateCaseLeaderboard settles; processWithUser ends *)
writeCaseEntry(p, ok) ==
  /\ runs[p].kind = "setCaseEntry"
  /\ IF ok
     THEN /\ caseLb' = [caseLb EXCEPT ![<<CaseId, runs[p].uid>>] = SetMerge(@, runs[p].data)]
          /\ runs' = [runs EXCEPT ![p] = [kind |-> "resolved"]]
     ELSE /\ runs' = [runs EXCEPT ![p] = Rejected("updateCaseLeaderboard")]
          /\ UNCHANGED caseLb
  /\ UNCHANGED <<now, stored, results, resultsById, authUser, pageVars, stats, globalLb, hist>>

(* the caller has seen the promise of processCaseCompletion settle *)
completionSettled(p) ==
  /\ runs[p].kind \in {"resolved", "rejected"}
  /\ runs' = [runs EXCEPT ![p] = Idle]
  /\ UNCHANGED <<now, stored, results, resultsById, authUser, pageVars, stats, globalLb,
                 caseLb, hist>>

(* the wins of case-001 of the signed-in user with different finishedAt:   *)
(* the early one without a score, the late one with a score                *)
CompletionInputs ==
  {i \in ResultInputs :
     /\ i.isWin /\ i.uid = PageUser /\ i.caseId = CaseId
     /\ (i.t = 1000) = (i.play.score = Undefined)}

(* completions of the signed-in user that do not overlap, while the ledger *)
(* gains wins of case-001                                                  *)
NextCompletion ==
  \/ \E i \in CompletionInputs : AppendResult(i)
  \/ \E p \in Procs, a \in CallArgs, o \in StoreOutcomes :
       processCaseCompletion(p, a, o.q, o.w1, o.w2)
  \/ \E p \in Procs, outcome \in GetStatsOutcomes : readBackStats(p, outcome)
  \/ \E p \in Procs, ok \in BOOLEAN : writeGlobalEntry(p, ok)
  \/ \E p \in Procs, readOk \in BOOLEAN : readCaseEntry(p, readOk)
  \/ \E p \in Procs, ok \in BOOLEAN : writeCaseEntry(p, ok)
  \/ \E p \in Procs : completionSettled(p)

SpecCompletion == Init /\ [][NextCompletion]_vars

(* ================ runs of updateUserStats that overlap ================ *)

(* the wins of the signed-in user that fill the ledger: one of each case *)
StatsRaceInputs == {i \in ResultInputs : i.isWin /\ i.uid = PageUser /\ i.t = 1000}

(* updateUserStats of caller p up to the answer to its query: getDocs is   *)
(* answered from the ledger as it is now, and the run waits for the answer *)
(* with the arguments of its call; it has a run of another caller in       *)
(* flight beside it or not                                                 *)
statsQuery(p, a, q) ==
  /\ authUser # None
  /\ runs[p] = Idle
  /\ hist.statRuns < MaxStatRuns
  /\ runs' = [runs EXCEPT ![p] =
                [kind |-> "statsWrite", q |-> q, snap |-> results, a |-> a,
                 overlaps |-> \E o \in Procs \ {p} : runs[o].kind = "statsWrite"]]
  /\ hist' = [hist EXCEPT !.statRuns = @ + 1]
  /\ UNCHANGED <<now, stored, results, resultsById, authUser, pageVars, stats, globalLb,
                 caseLb>>

(* the rest of the run of caller p: the recalculation from the answer of   *)
(* the query and the setDoc that replaces the document, or the fallback on *)
(* the document as it is now (w1, w2 as in updateUserStats)                *)
statsWrite(p, w1, w2) ==
  /\ runs[p].kind = "statsWrite"
  /\ [q |-> runs[p].q, w1 |-> w1, w2 |-> w2] \in StoreOutcomes
  /\ LET uid == authUser[1]
         run == runs[p]
         r == updateUserStats(stats[uid], run.snap, uid, run.a.caseScore, run.a.durationMs,
                              run.a.attempts, run.q, w1, w2)
     IN /\ stats' = [stats EXCEPT ![uid] = r[1]]
        /\ runs' = [runs EXCEPT ![p] =
                      [kind |-> IF r[2] = "throw" THEN "rejected" ELSE "resolved",
                       step |-> "updateUserStats", path |-> r[2], snap |-> run.snap,
                       overlaps |-> run.overlaps]]
  /\ UNCHANGED <<now, stored, results, resultsById, authUser, pageVars, globalLb, caseLb, hist>>

(* the callers have seen their runs end: no run is in flight *)
NoRunInFlight == \A p \in Procs : runs[p].kind \in {"idle", "resolved", "rejected"}

(* runs of two devices of the user, with their queries and writes in any   *)
(* order, while the ledger grows                                           *)
NextStatsRace ==
  \/ \E i \in StatsRaceInputs : AppendResult(i)
  \/ \E p \in Procs, a \in CallArgs, q \in GetDocsOutcomes : statsQuery(p, a, q)
  \/ \E p \in Procs, w1 \in BOOLEAN, w2 \in BOOLEAN : statsWrite(p, w1, w2)
  \/ \E p \in Procs : NoRunInFlight /\ completionSettled(p)

SpecStatsRace == Init /\ [][NextStatsRace]_vars

(* ========================= getUserStats called ========================= *)

(* a read of the cache or of the network resolves, throws an error with    *)
(* the code unavailable (or a message with offline), or throws another     *)
(* error                                                                   *)
ReadOutcomes == {"ok", "unavailable", "error"}

(* no error taken for an offline error *)
isOfflineErrorNever(e) == FALSE

(* error?.code === "unavailable" || error?.message?.includes("offline") *)
isOfflineError(e) == e = "unavailable"

(* getUserStats(uid) with the document doc: cacheRead is the outcome of    *)
(* getDocFromCache, netRead that of getDoc.  The value is the settled      *)
(* promise: resolved with the data or null (None), or rejected; network    *)
(* tells whether getDoc was called                                         *)
getUserStatsCall(doc, cacheRead, netRead) ==
  LET settled(kind, value, network) ==
        [kind |-> kind, step |-> "getUserStats", value |-> value, network |-> network,
         doc |-> doc, cacheRead |-> cacheRead, netRead |-> netRead]
  IN IF cacheRead = "ok" THEN settled("resolved", doc, FALSE)
     ELSE IF isOfflineError(cacheRead) THEN settled("resolved", None, FALSE)
     ELSE IF netRead = "ok" THEN settled("resolved", doc, TRUE)
     ELSE IF isOfflineError(netRead) THEN settled("resolved", None, TRUE)
     ELSE settled("rejected", None, TRUE)

(* caller p calls getUserStats for the signed-in user; the outcome of a    *)
(* read that is not made is "ok"                                           *)
getStats(p, cacheRead, netRead) ==
  /\ authUser # None
  /\ runs[p] = Idle
  /\ (cacheRead \in {"ok", "unavailable"}) => netRead = "ok"
  /\ runs' = [runs EXCEPT ![p] = getUserStatsCall(stats[authUser[1]], cacheRead, netRead)]
  /\ UNCHANGED <<now, stored, results, resultsById, authUser, pageVars, stats, globalLb,
                 caseLb, hist>>

(* the stats document written by updateUserStats and read by getUserStats *)
NextGetStats ==
  \/ \E a \in CallArgs, o \in StoreOutcomes : UpdateStats(a, o.q, o.w1, o.w2)
  \/ \E p \in Procs, cacheRead \in ReadOutcomes, netRead \in ReadOutcomes :
       getStats(p, cacheRead, netRead)
  \/ \E p \in Procs : completionSettled(p)

SpecGetStats == Init /\ [][NextGetStats]_vars

(* =================== the wait for the auth state =================== *)

(* the functions that wait for onAuthStateChanged: those that set a        *)
(* timeout of AUTH_TIMEOUT_MS, and the variants of getActiveCase,          *)
(* saveActiveCase and saveCaseResult that set none                         *)
TimedOps == {"getActiveCase", "saveActiveCase", "saveCaseResult", "processCaseCompletion"}
UntimedOps == {"getActiveCase (no timeout)", "saveActiveCase (no timeout)",
               "saveCaseResult (no timeout)"}
AuthOps == TimedOps \cup UntimedOps

(* the page is loaded again: auth.currentUser is null until the auth       *)
(* state is restored                                                       *)
authReset ==
  /\ AllIdle
  /\ authUser # None
  /\ authUser' = None
  /\ UNCHANGED <<now, stored, results, resultsById, pageVars, rankVars, hist>>

(* caller p calls op.  A function of TimedOps goes on at once when         *)
(* auth.currentUser is set, and otherwise subscribes and sets its timeout; *)
(* a function of UntimedOps always subscribes                              *)
authCall(p, op) ==
  /\ runs[p] = Idle
  /\ now + AUTH_TIMEOUT_MS <= MaxAuthTicks * TickMs
  /\ runs' = [runs EXCEPT ![p] =
                IF op \in TimedOps /\ authUser # None THEN [kind |-> "store", op |-> op]
                ELSE [kind |-> "authWait", op |-> op, startedAt |-> now]]
  /\ UNCHANGED <<now, stored, results, resultsById, authUser, pageVars, stats, globalLb,
                 caseLb, hist>>

(* the promise rejected by its timeout; the callback may still be          *)
(* delivered once when its notification was dispatched before unsubscribe  *)
TimedOut(op) == [kind |-> "rejected", step |-> "Auth state timeout", op |-> op,
                 notified |-> FALSE]

(* run was rejected by its timeout and no callback has run since *)
timedOutUnnotified(run) ==
  run.kind = "rejected" /\ run.step = "Auth state timeout" /\ ~run.notified

(* the test of the flag left out *)
alreadyResolvedUnchecked(run) == FALSE

(* let resolved = false, set by whichever of the timeout and the callback  *)
(* runs first: if (resolved) return / if (!resolved)                       *)
alreadyResolved(run) == run.kind # "authWait"

(* the callback of onAuthStateChanged of caller p runs with user.  With    *)
(* the flag set it returns at once.  Otherwise the timeout is cleared;     *)
(* with no user the promise settles (getActiveCase resolves null, the      *)
(* others reject), with a user the function goes on to its reads and       *)
(* writes of the store                                                     *)
authNotify(p, user) ==
  /\ \/ runs[p].kind = "authWait"
     \/ timedOutUnnotified(runs[p])
  /\ authUser' = user
  /\ runs' = [runs EXCEPT ![p] =
                IF alreadyResolved(@) THEN [@ EXCEPT !.notified = TRUE]
                ELSE IF user # None
                THEN [kind |-> "store", op |-> @.op, startedAt |-> @.startedAt]
                ELSE IF @.op \in {"getActiveCase", "getActiveCase (no timeout)"}
                THEN [kind |-> "resolved"]
                ELSE Rejected("User not authenticated")]
  /\ UNCHANGED <<now, stored, results, resultsById, pageVars, stats, globalLb, caseLb, hist>>

(* the timeout of caller p comes due before the callback ran (the callback *)
(* clears it): the promise rejects                                         *)
authTimeout(p) ==
  /\ runs[p].kind = "authWait"
  /\ runs[p].op \in TimedOps
  /\ now >= runs[p].startedAt + AUTH_TIMEOUT_MS
  /\ runs' = [runs EXCEPT ![p] = IF alreadyResolved(@) THEN @ ELSE TimedOut(@.op)]
  /\ UNCHANGED <<now, stored, results, resultsById, authUser, pageVars, stats, globalLb,
                 caseLb, hist>>

(* the reads and writes of the store of the function settle *)
storeSettled(p, ok) ==
  /\ runs[p].kind = "store"
  /\ runs' = [runs EXCEPT ![p] = IF ok THEN [kind |-> "resolved"] ELSE Rejected("store")]
  /\ UNCHANGED <<now, stored, results, resultsById, authUser, pageVars, stats, globalLb,
                 caseLb, hist>>

NextAuth ==
  \/ authReset
  \/ \E p \in Procs, op \in AuthOps : authCall(p, op)
  \/ \E p \in Procs, user \in {None, Some(PageUser)} : authNotify(p, user)
  \/ \E p \in Procs : authTimeout(p)
  \/ \E p \in Procs, ok \in BOOLEAN : storeSettled(p, ok)
  \/ \E p \in Procs : completionSettled(p)
  \/ Tick(MaxAuthTicks)

(* the clock advances, a timeout that is due runs, and the store answers;  *)
(* nothing makes the auth state notification arrive                        *)
SpecAuth ==
  /\ Init /\ [][NextAuth]_vars
  /\ WF_vars(Tick(MaxAuthTicks))
  /\ \A p \in Procs : WF_vars(authTimeout(p))
  /\ \A p \in Procs : WF_vars(\E ok \in BOOLEAN : storeSettled(p, ok))

(* =========== saveCaseResult with its wait for the auth state =========== *)

(* addDoc resolves, rejects with the code unavailable, or rejects with     *)
(* another error                                                           *)
AddDocOutcomes == {"ok", "unavailable", "error"}

(* the calls: a win of case-001 by the page of each user *)
ResultCallInputs == {i \in ResultInputs : i.isWin /\ i.caseId = CaseId /\ i.t = 1000}

(* the uid of the record taken from the caller *)
recordUidOfCaller(user, i) == i.uid

(* uid: auth.currentUser.uid on the fast path, uid: user.uid in the        *)
(* callback of onAuthStateChanged                                          *)
recordUid(user, i) == user

(* the promise of saveCaseResult after addDoc settled with o: the catch    *)
(* block returns normally on unavailable and throws every other error      *)
addDocSettled(o, waited) ==
  IF o = "error" THEN Rejected("addDoc")
  ELSE [kind |-> "resolved", op |-> "saveCaseResult", waited |-> waited, addDoc |-> o]

(* the ledger after the addDoc of saveCaseResult of the page i for the     *)
(* authenticated user                                                      *)
addDocResult(user, i, o) ==
  saveCaseResult(results, recordUid(user, i), i.caseId, now, i.play.durationMs, 0,
                 i.play.attempts, i.isWin, i.play.score, o = "ok")

(* saveCaseResult called by the page i on device p: with auth.currentUser  *)
(* set the record is written at once, otherwise the call subscribes to the *)
(* auth state                                                              *)
resultCall(p, i, o) ==
  /\ runs[p] = Idle
  /\ Len(results) + Cardinality({q \in Procs : runs[q].kind = "authWait"}) < MaxLedger
  /\ IF authUser # None
     THEN /\ results' = addDocResult(authUser[1], i, o)
          /\ runs' = [runs EXCEPT ![p] = addDocSettled(o, FALSE)]
     ELSE /\ runs' = [runs EXCEPT ![p] = [kind |-> "authWait", op |-> "saveCaseResult",
                                          startedAt |-> now, input |-> i]]
          /\ UNCHANGED results
  /\ UNCHANGED <<now, stored, resultsById, authUser, pageVars, stats, globalLb, caseLb, hist>>

(* the callback of onAuthStateChanged of a waiting saveCaseResult runs     *)
(* with user: without a user the promise rejects, with one the record is   *)
(* written                                                                 *)
resultNotify(p, user, o) ==
  /\ runs[p].kind = "authWait" /\ runs[p].op = "saveCaseResult"
  /\ authUser' = user
  /\ IF user = None
     THEN /\ runs' = [runs EXCEPT ![p] = Rejected("User not authenticated")]
          /\ UNCHANGED results
     ELSE /\ results' = addDocResult(user[1], runs[p].input, o)
          /\ runs' = [runs EXCEPT ![p] = addDocSettled(o, TRUE)]
  /\ UNCHANGED <<now, stored, resultsById, pageVars, stats, globalLb, caseLb, hist>>

NextResult ==
  \/ \E u \in Users : SignIn(u)
  \/ authReset
  \/ \E p \in Procs, i \in ResultCallInputs, o \in AddDocOutcomes : resultCall(p, i, o)
  \/ \E p \in Procs, user \in {None} \cup {Some(u) : u \in Users}, o \in AddDocOutcomes :
       resultNotify(p, user, o)
  \/ \E p \in Procs : completionSettled(p)

SpecResult == Init /\ [][NextResult]_vars

(* ============================== properties ============================== *)

SolutionTriple == <<Solution.suspectId, Solution.locationId, Solution.weaponId>>
LastResult == results[Len(results)]

(* C1: once a correct submission has completed on a page (success shown),  *)
(* no further run of onSubmitReport with the correct triple passes the     *)
(* guard of the handler on that page: no second winning record is saved    *)
(* and no session write is made by it.                                     *)
C1_NoSecondWinningSubmission ==
  [][hist.finishedHere => ~(pc = Idle /\ pc'.kind = "awaitWin")]_vars

(* C2: once the stored session is finished, no write of the case page (a   *)
(* debounced save or a submission; the loads apart) changes its status,    *)
(* attempts or penaltyMs.                                                  *)
C2_FinishedIsFrozen ==
  [][(stored # None /\ stored[1].status = "finished" /\ loadPc = Idle /\ loadPc' = Idle)
       => /\ stored' # None
          /\ stored'[1].status = "finished"
          /\ stored'[1].attempts = stored[1].attempts
          /\ stored'[1].penaltyMs = stored[1].penaltyMs]_vars

(* C3: while the stored session is playing, no write of the case page (the *)
(* loads apart) lowers its penaltyMs or its attempts.                      *)
C3_CountersNeverDecrease ==
  [][(/\ stored # None /\ stored' # None
      /\ stored[1].status = "playing" /\ stored'[1].status = "playing"
      /\ loadPc = Idle /\ loadPc' = Idle)
       => /\ stored'[1].penaltyMs >= stored[1].penaltyMs
          /\ stored'[1].attempts >= stored[1].attempts]_vars

(* C4: when the first correct submission of a session follows k wrong ones *)
(* and every write of the session succeeded, the stored session and the    *)
(* winning record have penaltyMs = k * 300000 and the record has           *)
(* durationMs = (time of the submission - startedAt) + k * 300000.         *)
C4_PenaltyAccumulation ==
  (pc.kind = "awaitWin" /\ ~hist.sessFailed /\ hist.sessWins = 1)
    => /\ LastResult.isWin
       /\ LastResult.penaltyMs = hist.sessWrong * PENALTY_MS
       /\ LastResult.durationMs =
            (LastResult.finishedAt - stored[1].startedAt) + hist.sessWrong * PENALTY_MS
       /\ stored[1].penaltyMs = hist.sessWrong * PENALTY_MS

(* C5: when a success is shown and every write of the session succeeded,   *)
(* the attempts reported and the attempts stored equal the number of       *)
(* submissions of the session, the stored session is finished, and the     *)
(* duration shown is floor(durationMs / 1000) of the winning record.       *)
C5_AttemptsCountSubmissions ==
  (resultState # None /\ resultState[1].type = "success" /\ ~hist.sessFailed)
    => /\ resultState[1].attempts = hist.sessSubmits
       /\ LastResult.isWin /\ LastResult.attempts = hist.sessSubmits
       /\ resultState[1].duration = LastResult.durationMs \div 1000
       /\ stored[1].status = "finished"
       /\ stored[1].attempts = hist.sessSubmits

(* C6: after n calls of saveCaseResult that succeeded, the collection      *)
(* holds n records, in each variant of saveCaseResult.                     *)
C6_AppendNeverOverwrites ==
  /\ Len(results) = hist.addCalls
  /\ Cardinality(DOMAIN resultsById) = hist.byIdCalls

(* C7: a record of the results collection has a score field if and only if *)
(* its isWin is true.                                                      *)
C7_ScoreIffWin ==
  \A i \in DOMAIN results : ("score" \in DOMAIN results[i]) <=> results[i].isWin

C9_LoadKeepsPlayingSession ==
  [][(stored # None /\ stored[1].status = "playing" /\ loadPc # Idle)
       => /\ stored' # None
          /\ stored'[1].startedAt = stored[1].startedAt
          /\ stored'[1].attempts = stored[1].attempts
          /\ stored'[1].penaltyMs = stored[1].penaltyMs]_vars

(* C10: a submission takes the winning branch (record with isWin = true,   *)
(* session written as finished) if and only if the submitted triple is the *)
(* solution triple; otherwise the record has isWin = false and the session *)
(* is not written as finished.                                             *)
C10_WinIffTripleMatches ==
  [][/\ (pc = Idle /\ pc' # Idle) =>
          LET win == (pc'.triple = SolutionTriple)
          IN /\ (pc'.kind = "awaitWin") = win
             /\ pc'.ok => ((stored'[1].status = "finished") = win)
             /\ results' # results => (results'[Len(results')].isWin /\ win)
     /\ (pc # Idle /\ pc' = Idle /\ results' # results) =>
          (~results'[Len(results')].isWin /\ pc.triple # SolutionTriple)]_vars

(* a submission wrong in the weapon only is being saved as a wrong attempt *)
C10_Witness ==
  /\ pc.kind = "awaitWrong"
  /\ pc.triple[1] = Solution.suspectId /\ pc.triple[2] = Solution.locationId
  /\ pc.triple[3] # Solution.weaponId
  /\ pc.ok /\ stored[1].status = "playing"

(* C11: while the page is loaded with no active session (activeCase is     *)
(* null), no step, a click on the submit button included, writes the       *)
(* session, appends a result record, starts a submission or charges an     *)
(* attempt or a penalty: onSubmitReport returns at its first line.         *)
C11_NoSessionNoSubmission ==
  [][(mounted /\ ~isLoading /\ activeCase = None)
       => /\ stored' = stored
          /\ results' = results
          /\ activeCase' = None
          /\ isSubmitting' = isSubmitting
          /\ pc' = pc]_vars

(* the load and both initializations failed, the submit button was clicked *)
(* with a full triple, and the handler returned: nothing is stored         *)
C11_Witness ==
  /\ hist.returned
  /\ mounted /\ ~isLoading /\ activeCase = None /\ ~isSubmitting /\ pc = Idle
  /\ stored = None /\ results = <<>>

(* the ledger as the last recalculation read it, and the user it ran for *)
FullLedger == SubSeq(results, 1, hist.fullLen[1])
StatsUser == authUser[1]

(* the winning records of user u in ledger coll: their positions, their    *)
(* cases, and the earliest of a case                                       *)
UserWins(coll, u) == {i \in DOMAIN coll : coll[i].uid = u /\ coll[i].isWin}
SolvedCasesOf(coll, u) == {coll[i].caseId : i \in UserWins(coll, u)}
EarliestWins(coll, u, c) ==
  {i \in UserWins(coll, u) :
     /\ coll[i].caseId = c
     /\ \A j \in UserWins(coll, u) :
          coll[j].caseId = c => coll[i].finishedAt <= coll[j].finishedAt}
UserWinRecords(coll, u) == SelectSeq(coll, LAMBDA r : r.uid = u /\ r.isWin)

(* a step that is a run of updateUserStats on the full-recompute path *)
FullRunStep == hist'.statRuns = hist.statRuns + 1 /\ hist'.lastPath = "full"

(* C12: a run of updateUserStats on the full-recompute path that follows a *)
(* run on that path with no ledger change and no other write of the stats  *)
(* document in between writes the same totalScore, solvedCases,            *)
(* averageTimeMs and totalAttempts again.                                  *)
C12_RecomputeIdempotent ==
  [][(FullRunStep /\ hist.fullLen = Some(Len(results)))
       => /\ stats'[StatsUser][1].totalScore = stats[StatsUser][1].totalScore
          /\ stats'[StatsUser][1].solvedCases = stats[StatsUser][1].solvedCases
          /\ stats'[StatsUser][1].averageTimeMs = stats[StatsUser][1].averageTimeMs
          /\ stats'[StatsUser][1].totalAttempts = stats[StatsUser][1].totalAttempts]_vars

(* two recalculations in succession over a ledger with wins of two cases *)
C12_Witness ==
  /\ hist.repeated
  /\ stats[StatsUser][1].solvedCases = 2
  /\ stats[StatsUser][1].totalScore > 0

(* C13: after a run on the full-recompute path, totalScore, totalAttempts  *)
(* and averageTimeMs are the sums (the rounded mean) over one record per   *)
(* solved case, and that record is a winning record of the case with the   *)
(* smallest finishedAt: a later win of the case contributes nothing.       *)
C13_FirstSolveWins ==
  hist.fullLen # None =>
    LET d == stats[StatsUser][1]
        cases == SolvedCasesOf(FullLedger, StatsUser)
    IN \E f \in [cases -> DOMAIN FullLedger] :
         /\ \A c \in cases : f[c] \in EarliestWins(FullLedger, StatsUser, c)
         /\ LET first == [c \in cases |-> FullLedger[f[c]]]
                n == Cardinality(cases)
            IN /\ d.totalScore = SumField(first, cases, "score")
               /\ d.totalAttempts = SumField(first, cases, "attempts")
               /\ d.averageTimeMs =
                    IF n = 0 THEN 0 ELSE MathRound(SumField(first, cases, "durationMs"), n)

(* the user won one case twice; the later win has the higher score, the    *)
(* other duration and comes first in the snapshot; the stats are those of  *)
(* the earlier win                                                         *)
C13_Witness ==
  /\ hist.fullLen # None
  /\ \E i \in UserWins(FullLedger, StatsUser), j \in UserWins(FullLedger, StatsUser) :
       /\ j < i
       /\ FullLedger[i].caseId = FullLedger[j].caseId
       /\ FullLedger[i].finishedAt < FullLedger[j].finishedAt
       /\ StatField(FullLedger[i], "score") < StatField(FullLedger[j], "score")
       /\ FullLedger[i].durationMs # FullLedger[j].durationMs
       /\ stats[StatsUser][1].solvedCases = 1
       /\ stats[StatsUser][1].totalScore = StatField(FullLedger[i], "score")
       /\ stats[StatsUser][1].averageTimeMs = FullLedger[i].durationMs
       /\ stats[StatsUser][1].totalAttempts = FullLedger[i].attempts

(* C14: after a run on the full-recompute path, solvedCases is the number  *)
(* of distinct caseIds with at least one winning record of the user in the *)
(* ledger the run read.                                                    *)
C14_SolvedCasesAreDistinctCases ==
  hist.fullLen # None =>
    stats[StatsUser][1].solvedCases = Cardinality(SolvedCasesOf(FullLedger, StatsUser))

(* three winning records of the user over two cases give solvedCases = 2 *)
C14_Witness ==
  /\ hist.fullLen # None
  /\ Cardinality(UserWins(FullLedger, StatsUser)) = 3
  /\ Cardinality(SolvedCasesOf(FullLedger, StatsUser)) = 2
  /\ stats[StatsUser][1].solvedCases = 2

(* C15: the document a run on the full-recompute path writes is the one   *)
(* the recalculation gives from the user's winning records alone, with no  *)
(* stats document before it and with null arguments: it depends neither on *)
(* the document before the run, nor on caseScore, durationMs and attempts, *)
(* nor on the other records of the ledger.                                 *)
C15_StatsDependOnWinsOnly ==
  [][FullRunStep =>
       stats'[StatsUser] =
         recalculatedDoc(None, UserWinRecords(results, StatsUser), StatsUser, 0, 0, 0)]_vars

(* a recalculation has replaced the values the increment logic had left,   *)
(* over a ledger that also holds records that are not wins of the user     *)
C15_Witness ==
  /\ hist.healed
  /\ stats[StatsUser][1].solvedCases >= 1
  /\ Len(UserWinRecords(results, StatsUser)) < Len(results)

(* the calls of updateCaseLeaderboard that did not throw, in order, and    *)
(* the first of them with the highest score                                *)
LbCalls == hist.lbCalls
FirstBest ==
  CHOOSE i \in DOMAIN LbCalls :
    /\ \A j \in DOMAIN LbCalls : LbCalls[j].score <= LbCalls[i].score
    /\ \A j \in 1..(i - 1) : LbCalls[j].score < LbCalls[i].score

(* C16: after each of a sequence of calls of updateCaseLeaderboard that do *)
(* not overlap, the entry holds the highest score passed so far (by the    *)
(* calls that did not throw) with the durationMs and attempts of the first *)
(* call that passed it: a call with a lower or equal score changes no      *)
(* field.                                                                  *)
C16_CaseEntryIsFirstBest ==
  (AllIdle /\ LbCalls # <<>>) =>
     /\ caseLb[LbKey] # None
     /\ caseLb[LbKey][1] = LbCalls[FirstBest]

(* the scores 50, 30, 80, 80, 10 were passed, the two calls with 80 with   *)
(* different durationMs and attempts; the entry is that of the first 80    *)
C16_Witness ==
  /\ AllIdle
  /\ Len(LbCalls) = 5
  /\ [i \in 1..5 |-> LbCalls[i].score] = <<50, 30, 80, 80, 10>>
  /\ LbCalls[3].durationMs # LbCalls[4].durationMs
  /\ LbCalls[3].attempts # LbCalls[4].attempts
  /\ caseLb[LbKey][1].score = 80
  /\ caseLb[LbKey][1].durationMs = LbCalls[3].durationMs
  /\ caseLb[LbKey][1].attempts = LbCalls[3].attempts

(* C17: the score of a per-case leaderboard entry never decreases, also    *)
(* when the reads and writes of two calls of updateCaseLeaderboard         *)
(* interleave.                                                             *)
C17_CaseScoreNeverDecreases ==
  [][caseLb[LbKey] # None =>
       /\ caseLb'[LbKey] # None
       /\ caseLb'[LbKey][1].score >= caseLb[LbKey][1].score]_vars

C20_FailuresAbsorbed ==
  \A p \in Procs : runs[p].kind # "rejected"

(* C19: every call that waits for the auth state eventually settles (its   *)
(* promise resolves or rejects), also when the notification never comes.   *)
C19_AuthWaitSettles ==
  \A p \in Procs :
    (runs[p].kind = "authWait") ~> (runs[p].kind \in {"resolved", "rejected"})

(* the calls of the functions that set the timeout do settle *)
TimedWaitsSettle ==
  \A p \in Procs :
    (runs[p].kind = "authWait" /\ runs[p].op \in TimedOps)
      ~> (runs[p].kind \in {"resolved", "rejected"})

(* C21: every submission whose session write was accepted leaves its       *)
(* result record in the ledger, also when the store rejects the addDoc of  *)
(* saveCaseResult (the append is tried again): no attempt is charged and   *)
(* no session finished without a record.                                   *)
C21_AppendRetried ==
  [][/\ (pc = Idle /\ pc'.kind = "awaitWin" /\ pc'.ok) => Len(results') = Len(results) + 1
     /\ (pc.kind = "awaitWrong" /\ pc.ok /\ pc' = Idle) => Len(results') = Len(results) + 1]_vars

(* C22: a wrong submission whose session write is rejected changes neither *)
(* the stored session nor the session of the page, and appends no result   *)
(* record, when the write is issued and when the handler goes on after its *)
(* await.                                                                  *)
C22_RejectedWrongSubmissionChargesNothing ==
  [][(\/ (pc = Idle /\ pc'.kind = "awaitWrong" /\ ~pc'.ok)
      \/ (pc.kind = "awaitWrong" /\ ~pc.ok /\ pc' = Idle))
       => /\ stored' = stored
          /\ activeCase' = activeCase
          /\ results' = results]_vars

(* a first wrong submission was charged; the session write of a second one *)
(* was rejected and the handler threw: attempts and penaltyMs are those of *)
(* the first, with one record                                              *)
C22_Witness ==
  /\ mounted /\ pc = Idle /\ isSubmitting
  /\ hist.sessWins = 0 /\ hist.sessWrong = 2
  /\ activeCase # None /\ activeCase[1].attempts = 1 /\ activeCase[1].penaltyMs = PENALTY_MS
  /\ stored # None /\ stored[1].attempts = 1 /\ stored[1].penaltyMs = PENALTY_MS
  /\ Len(results) = 1 /\ ~results[1].isWin

(* the debounced save issued since the last run of the save effect was     *)
(* rejected (the stored session has not the grid of the page) and no save  *)
(* is pending                                                              *)
FailedSaveLeft ==
  /\ mounted /\ activeCase # None /\ hist.saves = 1 /\ timers = {}
  /\ (stored = None \/ stored[1].gridState # gridState)

(* C23: after a debounced save that was rejected, the save of the current  *)
(* gridState is attempted again: the page does not stay with the rejected  *)
(* save as its last one and no save pending.                               *)
C23_FailedSaveRetried == FailedSaveLeft ~> ~FailedSaveLeft

(* the earliest winning record of user u for case c in ledger coll; of     *)
(* records with the same finishedAt, the first of the ledger               *)
FirstWin(coll, u, c) ==
  CHOOSE i \in EarliestWins(coll, u, c) : \A j \in EarliestWins(coll, u, c) : i <= j
FirstWins(coll, u) == {FirstWin(coll, u, c) : c \in SolvedCasesOf(coll, u)}

(* the sum of a field over the records at the positions idx, a record      *)
(* without the field counting 0                                            *)
RECURSIVE SumAt(_, _, _)
SumAt(coll, idx, field) ==
  IF idx = {} THEN 0
  ELSE LET i == CHOOSE x \in idx : TRUE
       IN (IF field \in DOMAIN coll[i] THEN coll[i][field] ELSE 0) + SumAt(coll, idx \ {i}, field)

(* m is sum / n rounded to the nearest integer, a half rounded up *)
IsRoundedMean(m, sum, n) == 2 * n * m <= 2 * sum + n /\ 2 * sum + n < 2 * n * (m + 1)

(* C24: after a run on the full-recompute path, over the first winning     *)
(* record of each case: solvedCases is their number, totalScore the sum of *)
(* their scores (a missing score counts 0), totalAttempts the sum of their *)
(* attempts, averageTimeMs the rounded mean of their durationMs; with no   *)
(* winning record the four values are 0.                                   *)
C24_FullRecomputeValues ==
  hist.fullLen # None =>
    LET d == stats[StatsUser][1]
        firsts == FirstWins(FullLedger, StatsUser)
        n == Cardinality(firsts)
    IN /\ d.solvedCases = n
       /\ d.totalScore = SumAt(FullLedger, firsts, "score")
       /\ d.totalAttempts = SumAt(FullLedger, firsts, "attempts")
       /\ IF n = 0 THEN d.averageTimeMs = 0
          ELSE IsRoundedMean(d.averageTimeMs, SumAt(FullLedger, firsts, "durationMs"), n)
       /\ n = 0 => (d.totalScore = 0 /\ d.totalAttempts = 0)

(* two cases won, one record without a score, the mean of the durations    *)
(* ending in a half: it is rounded up                                      *)
C24_Witness ==
  /\ hist.fullLen # None
  /\ LET firsts == FirstWins(FullLedger, StatsUser)
     IN /\ Cardinality(firsts) = 2
        /\ \E i \in firsts : "score" \notin DOMAIN FullLedger[i]
        /\ SumAt(FullLedger, firsts, "durationMs") % 2 = 1
        /\ stats[StatsUser][1].totalScore = 250
        /\ 2 * stats[StatsUser][1].averageTimeMs = SumAt(FullLedger, firsts, "durationMs") + 1

(* a step that is a run of updateUserStats, and one on the fallback path *)
StatsRunStep == hist'.statRuns = hist.statRuns + 1
FallbackRunStep == StatsRunStep /\ hist'.lastPath = "fallback"

(* C25: a run of updateUserStats whose ledger query succeeded writes the   *)
(* recalculated document and applies no increment: the fallback path is    *)
(* taken only when the query could not be performed.                       *)
C25_FallbackOnlyWhenQueryFails ==
  [][(StatsRunStep /\ hist'.lastCall[1].q = "ok") => hist'.lastPath # "fallback"]_vars

(* C26: a run on the fallback path applies exactly one increment of its    *)
(* call: over a cached document solvedCases + 1, totalScore + caseScore,   *)
(* totalAttempts + attempts and the running mean                           *)
(* round((oldAverage * oldSolved + durationMs) / (oldSolved + 1)); with no *)
(* cached document 1, caseScore, durationMs, attempts.                     *)
C26_FallbackIncrement ==
  [][FallbackRunStep =>
       \E a \in CallArgs :
         LET old == stats[StatsUser]
             new == stats'[StatsUser][1]
         IN IF old # None
            THEN /\ new.solvedCases = old[1].solvedCases + 1
                 /\ new.totalScore = old[1].totalScore + a.caseScore
                 /\ new.totalAttempts = old[1].totalAttempts + a.attempts
                 /\ IsRoundedMean(new.averageTimeMs,
                                  old[1].averageTimeMs * old[1].solvedCases + a.durationMs,
                                  old[1].solvedCases + 1)
                 /\ new.uid = old[1].uid
            ELSE new = [uid |-> StatsUser, totalScore |-> a.caseScore, solvedCases |-> 1,
                        averageTimeMs |-> a.durationMs, totalAttempts |-> a.attempts]]_vars

(* an increment over a recalculated document of two solved cases: three    *)
(* solved cases, and an average that is not the mean of the old average    *)
(* and the new time                                                        *)
C26_Witness ==
  /\ hist.lastPath = "fallback" /\ hist.statRuns = 2
  /\ stats[StatsUser] # None
  /\ stats[StatsUser][1].solvedCases = 3
  /\ stats[StatsUser][1].averageTimeMs = 70001

(* the store accepted a write of the increment logic in the call c *)
fallbackWriteAccepted(c) == IF c.q = "offline" THEN c.w1 \/ c.w2 ELSE c.w2

(* C27: a run of updateUserStats whose ledger query failed, with whatever  *)
(* error code, and whose fallback write was accepted takes the fallback    *)
(* path and returns normally: the failure is not thrown to the caller.     *)
C27_QueryFailureNotSurfaced ==
  [][(StatsRunStep /\ hist'.lastCall[1].q # "ok" /\ fallbackWriteAccepted(hist'.lastCall[1]))
       => /\ hist'.lastPath = "fallback"
          /\ stats'[StatsUser] # None
          /\ stats'[StatsUser] # stats[StatsUser]]_vars

(* the query threw an error that is not unavailable, and the run returned  *)
(* with the increment written                                              *)
C27_Witness ==
  /\ hist.lastCall # None /\ hist.lastCall[1].q = "error" /\ hist.lastCall[1].w2
  /\ hist.lastPath = "fallback"
  /\ stats[StatsUser] # None /\ stats[StatsUser][1].solvedCases = 1

(* the positions of a run of processCaseCompletion, each with the          *)
(* positions that may follow it                                            *)
RunOrder ==
  {<<"idle", "getUserStats">>, <<"idle", "rejected">>,
   <<"getUserStats", "getUserStats">>, <<"getUserStats", "updateGlobalLeaderboard">>,
   <<"getUserStats", "rejected">>,
   <<"updateGlobalLeaderboard", "updateCaseLeaderboard">>, <<"updateGlobalLeaderboard", "rejected">>,
   <<"updateCaseLeaderboard", "setCaseEntry">>, <<"updateCaseLeaderboard", "resolved">>,
   <<"updateCaseLeaderboard", "rejected">>,
   <<"setCaseEntry", "resolved">>, <<"setCaseEntry", "rejected">>,
   <<"resolved", "idle">>, <<"rejected", "idle">>}

RunStep(p, from, to) == runs[p].kind = from /\ runs'[p].kind = to

C29_ReadBackBounded ==
  [][\A p \in Procs :
       /\ runs[p].kind = "getUserStats" =>
            /\ runs[p].nulls \in 0..2
            /\ runs'[p].kind = "getUserStats" => runs'[p].nulls \in {runs[p].nulls, runs[p].nulls + 1}
            /\ (runs[p].nulls = 2 /\ runs'[p] # runs[p]) =>
                 runs'[p].kind \in {"updateGlobalLeaderboard", "rejected"}
            /\ (globalLb' = globalLb /\ caseLb' = caseLb)
       /\ runs[p] = Rejected(StatsReadFailed) => (globalLb' = globalLb /\ caseLb' = caseLb)]_vars

(* the first run of the user: three reads without stats, the run has       *)
(* rejected with the stats written and no leaderboard entry                *)
C29_Witness ==
  \E p \in Procs :
    /\ runs[p] = Rejected(StatsReadFailed)
    /\ stats[StatsUser] # None
    /\ globalLb[StatsUser] = None /\ caseLb[<<CaseId, StatsUser>>] = None

(* C30: an append of a result record, by either variant of saveCaseResult, *)
(* removes or changes no record the ledger holds: with the appends of two  *)
(* writers of a user in any order the ledger ends as the union of all the  *)
(* records.                                                                *)
C30_AppendsKeepAllRecords ==
  [][/\ \A i \in DOMAIN results : i \in DOMAIN results' /\ results'[i] = results[i]
     /\ \A k \in DOMAIN resultsById :
          k \in DOMAIN resultsById' /\ resultsById'[k] = resultsById[k]]_vars

(* the appends of the addDoc variant keep every record *)
AddDocKeepsAllRecords ==
  [][\A i \in DOMAIN results : i \in DOMAIN results' /\ results'[i] = results[i]]_vars

(* C31: every record saveCaseResult appends has the uid of the user who is *)
(* authenticated when it is written (auth.currentUser, or the user the     *)
(* auth state resolved to), whoever the page that calls belongs to; when   *)
(* the auth state resolves to no user the call rejects and the ledger is   *)
(* unchanged.                                                              *)
C31_RecordUidIsAuthenticatedUser ==
  [][/\ results' # results =>
          /\ Len(results') = Len(results) + 1
          /\ SubSeq(results', 1, Len(results)) = results
          /\ authUser' # None
          /\ results'[Len(results')].uid = authUser'[1]
     /\ \A p \in Procs :
          (runs[p].kind = "authWait" /\ runs'[p] # runs[p] /\ authUser' = None)
            => (results' = results /\ runs'[p].kind = "rejected")]_vars

(* a call made with no user signed in has written its record, after the    *)
(* auth state resolved to u2, with the uid u2, behind a record of u1       *)
C31_Witness ==
  /\ \E p \in Procs : runs[p].kind = "resolved" /\ runs[p].waited /\ runs[p].addDoc = "ok"
  /\ Len(results) = 2
  /\ results[1].uid = "u1" /\ results[2].uid = "u2"
  /\ authUser = Some("u2")

(* C35: a call of saveCaseResult resolves only with its record in the      *)
(* ledger: it never resolves after its addDoc failed.                      *)
C35_ResolvedMeansRecorded ==
  [][\A p \in Procs :
       (runs[p].kind # "resolved" /\ runs'[p].kind = "resolved")
         => Len(results') = Len(results) + 1]_vars

(* C34: each wait for the auth state with a timeout settles its promise    *)
(* once.  A promise that is settled stays as it is until its caller has    *)
(* seen it: after the timeout rejected, a callback delivered late starts   *)
(* no read or write of the store; and the rejection Auth state timeout     *)
(* only ever comes to a call that is still waiting and whose timeout is    *)
(* due, never to one whose callback has run.                               *)
C34_SettledOnce ==
  [][\A p \in Procs :
       /\ runs[p].kind \in {"resolved", "rejected"}
            => /\ runs'[p].kind \in {runs[p].kind, "idle"}
               /\ runs'[p].kind = "rejected" => runs'[p].step = runs[p].step
       /\ (runs'[p].kind = "store" /\ runs[p].kind # "store")
            => runs[p].kind \in {"idle", "authWait"}
       /\ (runs'[p].kind = "rejected" /\ runs'[p].step = "Auth state timeout"
             /\ runs[p].kind # "rejected")
            => /\ runs[p].kind = "authWait" /\ runs[p].op \in TimedOps
               /\ now >= runs[p].startedAt + AUTH_TIMEOUT_MS]_vars

(* one call was rejected by its timeout and its callback ran afterwards    *)
(* with a user; the other call went on to the store from its callback and  *)
(* is still there after its timeout would have been due                    *)
C34_Witness ==
  \E p, q \in Procs :
    /\ runs[p].kind = "rejected" /\ runs[p].step = "Auth state timeout"
    /\ runs[p].notified /\ runs[p].op \in TimedOps
    /\ authUser # None
    /\ runs[q].kind = "store" /\ runs[q].op \in TimedOps
    /\ "startedAt" \in DOMAIN runs[q]
    /\ now >= runs[q].startedAt + AUTH_TIMEOUT_MS

(* C32: a run of onSubmitReport that has set isSubmitting to true sets it  *)
(* back to false in the end, also when its saveActiveCase rejects: on a    *)
(* page that stays open isSubmitting does not stay true for ever.          *)
C32_SubmittingEnds ==
  (mounted /\ isSubmitting) ~> (~isSubmitting \/ ~mounted)

(* C33: a page has at most one run of onSubmitReport in progress: an       *)
(* invocation made while a run is waiting for its session write returns    *)
(* at its first line, so it leaves the stored session and the ledger as    *)
(* they are and no second run waits beside the first.                      *)
C33_OneRunInProgress ==
  [][(pc.kind \in {"awaitWin", "awaitWrong"} /\ pc'.kind \in {"awaitWin", "awaitWrong"}
        /\ (hist'.submits # hist.submits \/ hist'.returned # hist.returned))
       => /\ stored' = stored /\ results' = results
          /\ "second" \notin DOMAIN pc']_vars

(* C36: on a page where every write of the session succeeded, once a       *)
(* submission is completed the stored session's attempts is the number of  *)
(* records appended for the session since it was initialized, and the      *)
(* record of the last, i-th, submission has attempts = i and the penaltyMs *)
(* of the stored session.                                                  *)
C36_AttemptsCountRecords ==
  (pc = Idle /\ ~hist.sessFailed /\ stored # None /\ hist.sessSubmits > 0)
    => /\ stored[1].attempts = hist.sessSubmits
       /\ Len(results) >= hist.sessSubmits
       /\ LastResult.attempts = hist.sessSubmits
       /\ LastResult.penaltyMs = stored[1].penaltyMs

(* the same up to and with the first winning submission of the session *)
AttemptsCountRecordsUpToWin ==
  (hist.sessWins = 0 \/ (hist.sessWins = 1 /\ Len(results) > 0 /\ LastResult.isWin))
    => C36_AttemptsCountRecords

(* C37: when two runs of updateUserStats of a user overlap and both end on *)
(* the full recalculation, the stats document is the recalculation from    *)
(* the ledger as the later of the two queries saw it: the write of the run *)
(* that queried first is not the one that stays.                           *)
C37_LaterQueryWins ==
  \A p \in Procs : \A e \in Procs \ {p} :
    (/\ runs[p].kind = "resolved" /\ runs[e].kind = "resolved"
     /\ runs[p].path = "full" /\ runs[e].path = "full"
     /\ runs[p].overlaps /\ ~runs[e].overlaps)
      => stats[PageUser] = Some(recalculatedStats(runs[p].snap, PageUser))

(* C38: getUserStats rejects only when the read of the network threw an    *)
(* error that is not an offline error, and then it does reject; after an   *)
(* offline error of either read it resolves null.  With the document in    *)
(* the cache it resolves the document without a read of the network, and   *)
(* it reads the network exactly when the read of the cache threw an error  *)
(* that is not an offline error.                                           *)
C38_GetUserStatsOutcomes ==
  \A p \in Procs :
    (runs[p].kind \in {"resolved", "rejected"} /\ runs[p].step = "getUserStats")
      => LET r == runs[p]
         IN /\ r.network = (r.cacheRead = "error")
            /\ (r.kind = "rejected") = (r.cacheRead = "error" /\ r.netRead = "error")
            /\ (r.cacheRead = "unavailable" \/ (r.network /\ r.netRead = "unavailable"))
                 => (r.kind = "resolved" /\ r.value = None)
            /\ (r.cacheRead = "ok" /\ r.doc # None)
                 => (r.kind = "resolved" /\ r.value = r.doc /\ ~r.network)

(* one call found the client offline at the cache, with a stats document   *)
(* written, and resolved null without a read of the network; another read  *)
(* the network after an error of the cache and was rejected                *)
C38_Witness ==
  \E p \in Procs : \E e \in Procs \ {p} :
    /\ runs[p].kind = "resolved" /\ runs[p].step = "getUserStats"
    /\ runs[p].cacheRead = "unavailable" /\ runs[p].doc # None
    /\ runs[p].value = None /\ ~runs[p].network
    /\ runs[e].kind = "rejected" /\ runs[e].step = "getUserStats" /\ runs[e].network

====
